---- MODULE Spec2Model ----
(***************************************************************************)
(* A model of src/src/sequences_mt.cpp: collocation detection over a       *)
(* tokenized corpus.  Phase 1 (counts, counts_mt) scans every text and     *)
(* increments a frequency table of ngrams; the table is flattened; Phase 2 *)
(* (estimates, estimates_mt) builds a contingency vector per candidate and *)
(* writes its sigma and lambda.                                            *)
(*                                                                         *)
(* Indices i, j, h are 0-based as in the C++ code; TLA+ sequences are      *)
(* 1-based, so text[j] of the code is written At(text, j) here.            *)
(* Contingency counts are doubles of the form k + 0.5 in the code; the     *)
(* model stores them in half units (2k + 1), so the 0.5 prior is 1.        *)
(* lambda and sigma are real-valued (log, sqrt); the model keeps each as   *)
(* the term the estimator evaluates: its name and the operands it reads.   *)
(***************************************************************************)
EXTENDS Integers, Sequences, FiniteSets, TLC

\* ---------------------------------------------------------------- bounds
MaxToken == 2
MaxCorpusLen == 3
MaxTexts == 2
MaxLen == 3
MaxCountMin == 2

VARIABLES
    texts,        \* Texts texts: the corpus
    count_min,    \* const unsigned int count_min
    len_min,      \* unsigned int len_min
    len_max,      \* unsigned int len_max
    method,       \* const String &method
    nested,       \* bool nested
    counts_seq,   \* MapNgrams counts_seq: ngram -> count
    count_mt,     \* the counting workers of parallelFor (one in the serial build)
    seqs,         \* VecNgrams seqs
    cs,           \* IntParams cs
    ns,           \* IntParams ns
    ss,           \* DoubleParams ss (sigma)
    ls,           \* DoubleParams ls (lambda)
    estimate_mt,  \* the estimation workers of parallelFor
    writes,       \* history: how often ss[i] and ls[i] were assigned
    pc            \* position of qatd_cpp_sequences

args == <<texts, count_min, len_min, len_max, method, nested>>
flat == <<seqs, cs, ns>>
vars == <<texts, count_min, len_min, len_max, method, nested, counts_seq,
          count_mt, seqs, cs, ns, ss, ls, estimate_mt, writes, pc>>

Workers == {1, 2}

Methods == {"unigram", "all_subtuples", "lr"}

\* ------------------------------------------------------------- helpers
SeqsUpTo(S, n) == UNION {[1..k -> S] : k \in 0..n}

Tokens == 0..MaxToken

\* text[j] with the 0-based index of the code
At(s, k) == s[k + 1]

RECURSIVE Pow2(_)
Pow2(n) == IF n = 0 THEN 1 ELSE 2 * Pow2(n - 1)

\* ------------------------------------------------------------ match_bit2
\* the comparison with the first position in the highest bit
RECURSIVE match_bit2_reversed_loop(_, _, _, _)
match_bit2_reversed_loop(tokens1, tokens2, i, bit) ==
    IF i < Len(tokens1) /\ i < Len(tokens2)
    THEN match_bit2_reversed_loop(tokens1, tokens2, i + 1,
             IF At(tokens1, i) = At(tokens2, i) THEN 2 * bit + 1 ELSE 2 * bit)
    ELSE bit

match_bit2_reversed(tokens1, tokens2) ==
    match_bit2_reversed_loop(tokens1, tokens2, 0, 0)

\* the comparison with position i in bit i + 1
RECURSIVE match_bit2_shifted_loop(_, _, _, _)
match_bit2_shifted_loop(tokens1, tokens2, i, bit) ==
    IF i < Len(tokens1) /\ i < Len(tokens2)
    THEN match_bit2_shifted_loop(tokens1, tokens2, i + 1,
             IF At(tokens1, i) = At(tokens2, i) THEN bit + Pow2(i + 1) ELSE bit)
    ELSE bit

match_bit2_shifted(tokens1, tokens2) ==
    match_bit2_shifted_loop(tokens1, tokens2, 0, 0)

RECURSIVE match_bit2_loop(_, _, _, _)
match_bit2_loop(tokens1, tokens2, i, bit) ==
    IF i < Len(tokens1) /\ i < Len(tokens2)
    THEN match_bit2_loop(tokens1, tokens2, i + 1,
             IF At(tokens1, i) = At(tokens2, i) THEN bit + Pow2(i) ELSE bit)
    ELSE bit

match_bit2(tokens1, tokens2) == match_bit2_loop(tokens1, tokens2, 0, 0)

\* ---------------------------------------------------- statistic estimators
Zero == [fn |-> "zero", ntokens |-> 0, operands |-> <<>>]

sigma_uni(counts, ntokens) ==
    [fn |-> "sigma_uni", ntokens |-> ntokens,
     operands |-> <<counts[0],
                    [b \in 0..(ntokens - 1) |-> counts[Pow2(b)]],
                    counts[Pow2(ntokens) - 1]>>]

lambda_uni(counts, ntokens) ==
    [fn |-> "lambda_uni", ntokens |-> ntokens,
     operands |-> <<counts[0],
                    [b \in 0..(ntokens - 1) |-> counts[Pow2(b)]],
                    counts[Pow2(ntokens) - 1]>>]

RECURSIVE bitCount(_)
bitCount(n) == IF n = 0 THEN 0 ELSE (n % 2) + bitCount(n \div 2)

sigma_all(counts) ==
    [fn |-> "sigma_all", ntokens |-> 0, operands |-> <<counts>>]

lambda_all(counts, ntokens) ==
    [fn |-> "lambda_all", ntokens |-> ntokens,
     operands |-> <<[b \in DOMAIN counts |->
                       <<(ntokens - bitCount(b)) % 2, counts[b]>>]>>]

\* ---------------------------------------------------------------- counts
\* the text of counts(): a copy of texts[h] with the padding 0 pushed back
Padded(h) == Append(At(texts, h), 0)

\* the boundary test of line 88 left out
IsInAcrossBoundary(token, i, j) == ~(j - i >= len_max)

\* line 88: is_in stays true unless the token is 0 or the cap is reached
IsIn(token, i, j) == ~(token = 0 \/ j - i >= len_max)

\* line 98 without the test against len_min
CollectsAny(tokens_seq) == TRUE

\* line 98: only sequences of size >= len_min are counted
Collects(tokens_seq) == Len(tokens_seq) >= len_min

\* counts_seq[tokens_seq]: operator[] inserts the key with value 0 if absent
Lookup(m, key) ==
    [k \in (DOMAIN m) \cup {key} |-> IF k \in DOMAIN m THEN m[k] ELSE 0]

\* line 99 as one step: counts_seq[tokens_seq]++
Incremented(m, key) == [Lookup(m, key) EXCEPT ![key] = @ + 1]

\* whether ++ on a value of MapNgrams is one indivisible step: the map is a
\* concurrent map whose counts are incremented without atomicity
AtomicCount == FALSE

\* the jump of line 102 left out
JumpNever(i, j) == i

\* line 102: jump if nested is false
Jump(i, j) == IF nested THEN i ELSE j

\* lines 101-103 without the i++ of line 83
ClosedWithoutAdvance(c) ==
    LET i2 == Jump(c.i, c.j)
    IN  IF i2 < Len(Padded(c.h))
        THEN [c EXCEPT !.tokens_seq = <<>>, !.i = i2, !.j = i2, !.pc = "scan"]
        ELSE [c EXCEPT !.tokens_seq = <<>>, !.i = 0, !.j = 0, !.h = c.h + 1,
                       !.pc = IF c.h + 1 < c.end THEN "text" ELSE "finished"]

\* lines 101-103 and the i++ of line 83: the run is closed, the outer loop
\* moves on, and counts() returns when i reaches len_text
Closed(c) ==
    LET i2 == Jump(c.i, c.j) + 1
    IN  IF i2 < Len(Padded(c.h))
        THEN [c EXCEPT !.tokens_seq = <<>>, !.i = i2, !.j = i2, !.pc = "scan"]
        ELSE [c EXCEPT !.tokens_seq = <<>>, !.i = 0, !.j = 0, !.h = c.h + 1,
                       !.pc = IF c.h + 1 < c.end THEN "text" ELSE "finished"]

\* a worker of parallelFor over [begin, end)
CountWorker(begin, end) ==
    [begin |-> begin, end |-> end, h |-> begin, i |-> 0, j |-> 0,
     tokens_seq |-> <<>>, reg |-> 0,
     pc |-> IF begin < end THEN "text" ELSE "finished"]

\* parallelFor(0, n, worker): the range is cut into at most two chunks;
\* one chunk is also the serial build's loop
Ranges(n) ==
    IF n = 0 THEN {<<0, 0>>} ELSE {<<k, n>> : k \in 1..n}

\* lines 123-124 and 76-79: counts(texts[h]) is entered
EnterText(w) ==
    LET c == count_mt[w]
    IN  /\ c.pc = "text"
        /\ count_mt' = [count_mt EXCEPT ![w] =
             IF Len(At(texts, c.h)) = 0
             THEN [c EXCEPT !.h = c.h + 1,
                            !.pc = IF c.h + 1 < c.end THEN "text" ELSE "finished"]
             ELSE [c EXCEPT !.i = 0, !.j = 0, !.tokens_seq = <<>>, !.pc = "scan"]]
        /\ UNCHANGED <<args, counts_seq, flat, ss, ls, estimate_mt, writes, pc>>

\* lines 84-105: the inner loop from start i with buffer tokens_seq, up to
\* the iteration that closes the run (closed) or to the end of the text
RECURSIVE inner_loop(_, _, _, _)
inner_loop(text, i, j, tokens_seq) ==
    IF j < Len(text)
    THEN IF IsIn(At(text, j), i, j)
         THEN inner_loop(text, i, j + 1, Append(tokens_seq, At(text, j)))
         ELSE [j |-> j, tokens_seq |-> tokens_seq, closed |-> TRUE]
    ELSE [j |-> j, tokens_seq |-> tokens_seq, closed |-> FALSE]

\* lines 83-100: one iteration of the outer loop, up to the read of the count
Scan(w) ==
    LET c == count_mt[w]
        text == Padded(c.h)
        run == inner_loop(text, c.i, c.i, c.tokens_seq)
        at == [c EXCEPT !.j = run.j, !.tokens_seq = run.tokens_seq]
    IN  /\ c.pc = "scan"
        /\ IF ~run.closed
           THEN /\ count_mt' = [count_mt EXCEPT ![w] =
                      IF c.i + 1 < Len(text)
                      THEN [at EXCEPT !.i = c.i + 1, !.j = c.i + 1]
                      ELSE [at EXCEPT !.i = 0, !.j = 0, !.h = c.h + 1,
                                      !.pc = IF c.h + 1 < c.end THEN "text"
                                             ELSE "finished"]]
                /\ UNCHANGED counts_seq
           ELSE IF Collects(run.tokens_seq) /\ AtomicCount
           THEN /\ counts_seq' = Incremented(counts_seq, run.tokens_seq)
                /\ count_mt' = [count_mt EXCEPT ![w] = Closed(at)]
           ELSE IF Collects(run.tokens_seq)
           THEN /\ counts_seq' = Lookup(counts_seq, run.tokens_seq)
                /\ count_mt' = [count_mt EXCEPT ![w] =
                      [at EXCEPT !.reg = counts_seq'[run.tokens_seq],
                                 !.pc = "store"]]
           ELSE /\ count_mt' = [count_mt EXCEPT ![w] = Closed(at)]
                /\ UNCHANGED counts_seq
        /\ UNCHANGED <<args, flat, ss, ls, estimate_mt, writes, pc>>

\* the write-back of line 99 without the increment
StoreUnincremented(w) ==
    LET c == count_mt[w]
    IN  /\ c.pc = "store"
        /\ counts_seq' = [counts_seq EXCEPT ![c.tokens_seq] = c.reg]
        /\ count_mt' = [count_mt EXCEPT ![w] = [Closed(c) EXCEPT !.reg = 0]]
        /\ UNCHANGED <<args, flat, ss, ls, estimate_mt, writes, pc>>

\* line 99: the write-back of counts_seq[tokens_seq]++, then lines 101-103
Store(w) ==
    LET c == count_mt[w]
    IN  /\ c.pc = "store"
        /\ counts_seq' = [counts_seq EXCEPT ![c.tokens_seq] = c.reg + 1]
        /\ count_mt' = [count_mt EXCEPT ![w] = [Closed(c) EXCEPT !.reg = 0]]
        /\ UNCHANGED <<args, flat, ss, ls, estimate_mt, writes, pc>>

\* ------------------------------------------------------------- flatten
\* a parallelFor that returns as soon as its first chunk is processed
CountingJoinedByFirst == count_mt[1].pc = "finished"

\* parallelFor returns when every chunk has been processed (lines 210, 214)
CountingJoined == \A w \in Workers : count_mt[w].pc = "finished"

\* the iteration orders of the map (line 225): unspecified, any order
Orders(m) ==
    LET n == Cardinality(DOMAIN m)
    IN  {f \in [1..n -> DOMAIN m] : \A a, b \in 1..n : f[a] = f[b] => a = b}

EstimateWorker(begin, end) ==
    [begin |-> begin, end |-> end, i |-> begin, counts_bit |-> <<>>,
     pc |-> IF begin < end THEN "estimates" ELSE "finished"]

\* lines 219-237: keys and values are separated, ss and ls are created
\* zero-filled, and the estimation workers are started
Flatten ==
    /\ pc = "count"
    /\ CountingJoined
    /\ \E order \in Orders(counts_seq) :
         /\ seqs' = order
         /\ cs' = [k \in DOMAIN order |-> counts_seq[order[k]]]
         /\ ns' = [k \in DOMAIN order |-> Len(order[k])]
         /\ ss' = [k \in DOMAIN order |-> Zero]
         /\ ls' = [k \in DOMAIN order |-> Zero]
         /\ writes' = [k \in DOMAIN order |-> [ss |-> 0, ls |-> 0]]
         /\ \E r \in Ranges(Len(order)) :
              estimate_mt' = [w \in Workers |->
                  IF w = 1 THEN EstimateWorker(0, r[1])
                  ELSE EstimateWorker(r[1], r[2])]
    /\ pc' = "estimate"
    /\ UNCHANGED <<args, counts_seq, count_mt>>

\* ------------------------------------------------------------- estimates
\* line 139 with <= for <
IgnoredOffByOne(i) == Len(At(seqs, i)) = 1 \/ At(cs, i) <= count_min

\* line 138 left out
IgnoredCountOnly(i) == At(cs, i) < count_min

\* line 139 with the comparison turned round
IgnoredAbove(i) == Len(At(seqs, i)) = 1 \/ At(cs, i) > count_min

\* lines 138-139: single words and infrequent sequences are ignored
Ignored(i) == Len(At(seqs, i)) = 1 \/ At(cs, i) < count_min

\* lines 142-149: the loop over every other candidate j
RECURSIVE counts_bit_loop(_, _, _)
counts_bit_loop(i, j, counts_bit) ==
    IF j < Len(seqs)
    THEN counts_bit_loop(i, j + 1,
             IF i = j THEN counts_bit
             ELSE LET bit == match_bit2(At(seqs, i), At(seqs, j))
                  IN  [counts_bit EXCEPT ![bit] = @ + 2 * At(cs, j)])
    ELSE counts_bit

\* lines 140-149 without the correction of line 150
CountsBitUncorrected(i) ==
    LET n == Len(At(seqs, i))
        prior == [b \in 0..(Pow2(n) - 1) |-> 1]
    IN  counts_bit_loop(i, 0, prior)

\* lines 140-150: the contingency vector of candidate i, in half units
CountsBit(i) ==
    LET n == Len(At(seqs, i))
        prior == [b \in 0..(Pow2(n) - 1) |-> 1]
        counts_bit == counts_bit_loop(i, 0, prior)
    IN  [counts_bit EXCEPT ![Pow2(n) - 1] = @ + 2 * (At(cs, i) - 1)]

\* lines 151-157: the estimator pair the method tag selects
Sigma(counts_bit, n) ==
    IF method = "unigram" THEN sigma_uni(counts_bit, n) ELSE sigma_all(counts_bit)

Lambda(counts_bit, n) ==
    IF method = "unigram" THEN lambda_uni(counts_bit, n)
    ELSE lambda_all(counts_bit, n)

\* an assignment that always lands in the first slot
AssignFirstSlot(v, i, x) == [v EXCEPT ![1] = x]

\* ss[i] = ..., ls[i] = ...: the slot of candidate i (0-based) is assigned
Assign(v, i, x) == [v EXCEPT ![i + 1] = x]

\* the loop of lines 175-177 moves on to the next candidate
Advance(e) ==
    [e EXCEPT !.i = e.i + 1, !.counts_bit = <<>>,
              !.pc = IF e.i + 1 < e.end THEN "estimates" ELSE "finished"]

\* lines 137-152/155: estimates(i) up to the assignment of ss[i]
Estimates(w) ==
    LET e == estimate_mt[w]
        n == Len(At(seqs, e.i))
    IN  /\ e.pc = "estimates"
        /\ IF Ignored(e.i)
           THEN /\ estimate_mt' = [estimate_mt EXCEPT ![w] = Advance(e)]
                /\ UNCHANGED <<ss, writes>>
           ELSE /\ ss' = Assign(ss, e.i, Sigma(CountsBit(e.i), n))
                /\ writes' = [writes EXCEPT ![e.i + 1].ss = @ + 1]
                /\ estimate_mt' = [estimate_mt EXCEPT ![w] =
                      [e EXCEPT !.counts_bit = CountsBit(e.i), !.pc = "lambda"]]
        /\ UNCHANGED <<args, counts_seq, count_mt, flat, ls, pc>>

\* lines 153/156: the assignment of ls[i]
EstimatesLambda(w) ==
    LET e == estimate_mt[w]
        n == Len(At(seqs, e.i))
    IN  /\ e.pc = "lambda"
        /\ ls' = Assign(ls, e.i, Lambda(e.counts_bit, n))
        /\ writes' = [writes EXCEPT ![e.i + 1].ls = @ + 1]
        /\ estimate_mt' = [estimate_mt EXCEPT ![w] = Advance(e)]
        /\ UNCHANGED <<args, counts_seq, count_mt, flat, ss, pc>>

\* parallelFor returns when every chunk has been processed (lines 237, 241)
EstimationJoined == \A w \in Workers : estimate_mt[w].pc = "finished"

\* lines 245-258: the data frame is built from seqs, cs, ns, ls, ss
Return ==
    /\ pc = "estimate"
    /\ EstimationJoined
    /\ pc' = "done"
    /\ UNCHANGED <<args, counts_seq, count_mt, flat, ss, ls, estimate_mt, writes>>

\* ------------------------------------------------------------------ runs
\* the state on entry of qatd_cpp_sequences, with the counting workers made
Entry(corpus) ==
    /\ texts = corpus
    /\ counts_seq = <<>>
    /\ \E r \in Ranges(Len(corpus)) :
         count_mt = [w \in Workers |->
             IF w = 1 THEN CountWorker(0, r[1]) ELSE CountWorker(r[1], r[2])]
    /\ seqs = <<>>
    /\ cs = <<>>
    /\ ns = <<>>
    /\ ss = <<>>
    /\ ls = <<>>
    /\ writes = <<>>
    /\ estimate_mt = [w \in Workers |-> EstimateWorker(0, 0)]
    /\ pc = "count"

\* lines 83 and 102: the start indices i the outer loop visits in one text
RECURSIVE starts(_, _)
starts(text, i) ==
    IF i < Len(text)
    THEN LET run == inner_loop(text, i, i, <<>>)
         IN  {i} \cup starts(text, IF run.closed THEN Jump(i, run.j) + 1 ELSE i + 1)
    ELSE {}

\* ---------------------------------------------------------- serial build
\* counts() run to its end on one padded text (lines 76-107)
RECURSIVE counts(_, _, _, _)
counts(text, i, tokens_seq, m) ==
    IF i < Len(text)
    THEN LET run == inner_loop(text, i, i, tokens_seq)
         IN  IF ~run.closed
             THEN counts(text, i + 1, run.tokens_seq, m)
             ELSE counts(text, Jump(i, run.j) + 1, <<>>,
                      IF Collects(run.tokens_seq)
                      THEN Incremented(m, run.tokens_seq) ELSE m)
    ELSE m

\* lines 212-214: the serial loop over the texts h, ..., size - 1
RECURSIVE counts_serial(_, _)
counts_serial(h, m) ==
    IF h < Len(texts)
    THEN counts_serial(h + 1,
             IF Len(At(texts, h)) = 0 THEN m ELSE counts(Padded(h), 0, <<>>, m))
    ELSE m

\* the corpora of at most n texts and budget tokens in all
RECURSIVE CorporaWithin(_, _)
CorporaWithin(n, budget) ==
    IF n = 0 THEN {<<>>}
    ELSE {<<>>} \cup
         UNION {{<<text>> \o corpus : corpus \in CorporaWithin(n - 1, budget - Len(text))} :
                   text \in SeqsUpTo(Tokens, budget)}

Corpora == CorporaWithin(MaxTexts, MaxCorpusLen)

Init ==
    /\ \E corpus \in Corpora : Entry(corpus)
    /\ count_min \in 1..MaxCountMin
    /\ len_min \in 0..MaxLen
    /\ len_max \in 0..MaxLen
    /\ method \in Methods
    /\ nested \in BOOLEAN

Next ==
    \/ \E w \in Workers : EnterText(w)
    \/ \E w \in Workers : Scan(w)
    \/ \E w \in Workers : Store(w)
    \/ Flatten
    \/ \E w \in Workers : Estimates(w)
    \/ \E w \in Workers : EstimatesLambda(w)
    \/ Return

Spec == Init /\ [][Next]_vars

\* the run of the scenario: texts [1,2,3,0] and [1,2,0], len_min = len_max = 2,
\* nested = false, count_min = 1
InitScenario ==
    /\ Entry(<< <<1, 2, 3, 0>>, <<1, 2, 0>> >>)
    /\ count_min = 1
    /\ len_min = 2
    /\ len_max = 2
    /\ method \in Methods
    /\ nested = FALSE

SpecScenario == InitScenario /\ [][Next]_vars

\* the runs that compare every two sequences of up to MaxLen tokens: a corpus
\* of two texts without a boundary, each counted whole as one candidate
InitPairs ==
    /\ \E t1, t2 \in SeqsUpTo(1..MaxToken, MaxLen) \ {<<>>} : Entry(<<t1, t2>>)
    /\ count_min = 1
    /\ len_min = 1
    /\ len_max = MaxLen
    /\ method \in Methods
    /\ nested = FALSE

SpecPairs == InitPairs /\ [][Next]_vars

\* ---------------------------------------------------------------- claims
Count(g) == IF g \in DOMAIN counts_seq THEN counts_seq[g] ELSE 0

\* the start positions at which g occurs as a contiguous window of text
Occurrences(g, text) ==
    {p \in 1..(Len(text) - Len(g) + 1) : SubSeq(text, p, p + Len(g) - 1) = g}

Counted == pc \in {"estimate", "done"}

Scored(i) == ss[i] # Zero /\ ls[i] # Zero

Unwritten(i) == ss[i] = Zero /\ ls[i] = Zero /\ writes[i] = [ss |-> 0, ls |-> 0]

SerialRun == count_mt[2].begin = count_mt[2].end

\* C1: with nested = true and 1 <= len_min <= len_max, after one text is counted
\* into an empty table, the count of every boundary-free ngram g with
\* len_min <= Len(g) <= len_max is the number of start positions at which g
\* occurs in the text: every sub-window of every run is counted.
C1_NestedCountsEveryWindow ==
    (Counted /\ Len(texts) = 1 /\ nested /\ 1 <= len_min /\ len_min <= len_max)
    => \A g \in SeqsUpTo(1..MaxToken, MaxCorpusLen) :
         (len_min <= Len(g) /\ Len(g) <= len_max)
         => Count(g) = Cardinality(Occurrences(g, texts[1]))

InvalidRange == len_min > len_max \/ len_min = 0 \/ len_max = 0

\* C3: a run with an invalid length range is rejected before any computation:
\* no text is scanned, no table entry is created, no candidate is estimated.
C3_InvalidRangeRejected ==
    InvalidRange
    => /\ \A w \in Workers : count_mt[w].pc \notin {"scan", "store"}
       /\ DOMAIN counts_seq = {}
       /\ \A i \in DOMAIN ss : Unwritten(i)

\* C4: with a method tag other than "unigram" and "all_subtuples" (and a valid
\* length range) no lambda and no sigma is ever written.
C4_UnknownMethodRejected ==
    (method \notin {"unigram", "all_subtuples"} /\ ~InvalidRange)
    => \A i \in DOMAIN ss : Unwritten(i)

\* C5: whatever the partition of the texts and the interleaving of the
\* workers, the table after counting is the table of the serial loop (stated
\* for the valid length ranges).
C5_CountsAsSerial ==
    (CountingJoined /\ ~InvalidRange) => counts_seq = counts_serial(0, <<>>)

NoBoundary(g) == \A p \in DOMAIN g : g[p] # 0

\* g is a contiguous slice of one text
SliceOfText(g) ==
    \E h \in DOMAIN texts :
        \E a \in 1..(Len(texts[h]) + 1) :
            /\ a + Len(g) - 1 <= Len(texts[h])
            /\ SubSeq(texts[h], a, a + Len(g) - 1) = g

\* C6: in every state no key of the table holds the boundary token 0, and
\* every key is a contiguous slice of a single text, so no counted sequence
\* spans a boundary token or two texts.
C6_BoundaryRespect ==
    \A g \in DOMAIN counts_seq : NoBoundary(g) /\ SliceOfText(g)

\* a text with a boundary between two tokens, both sides counted, while
\* counting is still going on
C6_Witness ==
    /\ pc = "count"
    /\ \E h \in DOMAIN texts :
         /\ Len(texts[h]) = 3
         /\ texts[h][1] # 0 /\ texts[h][2] = 0 /\ texts[h][3] # 0
         /\ Count(<<texts[h][1]>>) >= 1
         /\ Count(<<texts[h][3]>>) >= 1

\* a worker of Phase 2 takes a step
EstimatorStep(w) == pc = "estimate" /\ estimate_mt'[w] # estimate_mt[w]

\* seqs and cs are the keys and the counts of the table, each key once
FlattenedTable ==
    /\ Len(seqs) = Cardinality(DOMAIN counts_seq)
    /\ Len(cs) = Len(seqs)
    /\ {seqs[k] : k \in DOMAIN seqs} = DOMAIN counts_seq
    /\ \A k \in DOMAIN seqs : cs[k] = counts_seq[seqs[k]]

\* C7: no step of the Candidate Estimator is taken before every counting
\* worker has finished all of its texts and the table has been flattened, and
\* while Phase 2 runs the table and the flattened candidates do not change.
C7_PhaseOrder ==
    [][/\ (\E w \in Workers : EstimatorStep(w))
          => /\ \A v \in Workers : /\ count_mt[v].pc = "finished"
                                   /\ count_mt[v].h = count_mt[v].end
             /\ FlattenedTable
       /\ pc = "estimate" => UNCHANGED <<counts_seq, count_mt, seqs, cs, ns>>]_vars

\* two workers have run Phase 1 and a sigma has been written in Phase 2
C7_Witness ==
    /\ pc = "estimate"
    /\ ~SerialRun
    /\ Len(seqs) >= 2
    /\ \E i \in DOMAIN seqs : writes[i].ss = 1

\* what estimates(i) leaves in slot i (1-based) of ss and ls
ExpectedSigma(i) ==
    IF Ignored(i - 1) THEN Zero ELSE Sigma(CountsBit(i - 1), Len(seqs[i]))

ExpectedLambda(i) ==
    IF Ignored(i - 1) THEN Zero ELSE Lambda(CountsBit(i - 1), Len(seqs[i]))

\* C8: a step of a worker estimating candidate i changes nothing but ss[i] and
\* ls[i]: the candidates, the counts and every other slot stay as they are; two
\* workers are never at the same candidate; and whatever the interleaving, the
\* run ends with every slot holding what estimates(i) alone computes.
C8_WriteIsolation ==
    /\ [][\A w \in Workers :
            EstimatorStep(w)
            => /\ UNCHANGED <<counts_seq, seqs, cs, ns>>
               /\ \A k \in DOMAIN ss :
                    k # estimate_mt[w].i + 1 => ss'[k] = ss[k] /\ ls'[k] = ls[k]]_vars
    /\ [](pc = "estimate"
          => \A v, w \in Workers :
               (v # w /\ estimate_mt[v].pc # "finished" /\ estimate_mt[w].pc # "finished")
               => estimate_mt[v].i # estimate_mt[w].i)
    /\ [](pc = "done"
          => \A i \in DOMAIN seqs : ss[i] = ExpectedSigma(i) /\ ls[i] = ExpectedLambda(i))

\* two workers have each scored a candidate
C8_Witness ==
    /\ pc = "done"
    /\ \E i, k \in DOMAIN seqs :
         /\ i < estimate_mt[2].begin + 1
         /\ k >= estimate_mt[2].begin + 1
         /\ Scored(i) /\ Scored(k)

\* C9: with len_min >= 1, no slot is written twice, and when the run is done
\* the slot of a candidate of length >= 2 and count >= count_min has been
\* written exactly once, and the slot of any other candidate never: it still
\* holds the initial value.
C9_WrittenOnceOrNever ==
    len_min >= 1
    => \A i \in DOMAIN seqs :
         /\ writes[i].ss <= 1 /\ writes[i].ls <= 1
         /\ pc = "done"
            => IF Len(seqs[i]) >= 2 /\ cs[i] >= count_min
               THEN writes[i] = [ss |-> 1, ls |-> 1] /\ Scored(i)
               ELSE Unwritten(i)

\* a finished run with a scored candidate and a skipped one
C9_Witness ==
    /\ pc = "done"
    /\ len_min >= 1
    /\ \E i, k \in DOMAIN seqs :
         /\ Len(seqs[i]) >= 2 /\ writes[i] = [ss |-> 1, ls |-> 1]
         /\ Unwritten(k)

\* the runs of exactly one token that a boundary closes, as counts() meets them
RunsOfOne ==
    {<<h, i>> \in (0..(Len(texts) - 1)) \X (0..MaxCorpusLen) :
        /\ Len(At(texts, h)) > 0
        /\ i \in starts(Padded(h), 0)
        /\ LET run == inner_loop(Padded(h), i, i, <<>>)
           IN  Len(run.tokens_seq) = 1 /\ run.closed /\ At(Padded(h), run.j) = 0}

\* C10: with len_min = 1 every run of exactly one token closed by a boundary
\* has its length-1 key, with its count, in the table and in the flattened
\* list once counting is over; and no sigma and no lambda is ever written for a
\* key of length 1, whatever count_min and method are.
C10_SingleWordsCountedNotScored ==
    /\ (Counted /\ len_min = 1)
       => \A r \in RunsOfOne :
            LET g == <<At(Padded(r[1]), r[2])>>
            IN  /\ Count(g) >= 1
                /\ \E k \in DOMAIN seqs : seqs[k] = g /\ cs[k] = Count(g)
    /\ \A i \in DOMAIN seqs : Len(seqs[i]) = 1 => Unwritten(i)

\* a finished run in which a single word passes the count filter and is not
\* scored, while a longer candidate is
C10_Witness ==
    /\ pc = "done"
    /\ len_min = 1
    /\ RunsOfOne # {}
    /\ \E i, k \in DOMAIN seqs :
         /\ Len(seqs[i]) = 1 /\ cs[i] >= count_min /\ Unwritten(i)
         /\ Scored(k)


\* ------------------------------------------------- claims C11 to C20
\* counts() run to its end on one padded text with lmin for len_min
RECURSIVE counts_at(_, _, _, _, _)
counts_at(lmin, text, i, tokens_seq, m) ==
    IF i < Len(text)
    THEN LET run == inner_loop(text, i, i, tokens_seq)
         IN  IF ~run.closed
             THEN counts_at(lmin, text, i + 1, run.tokens_seq, m)
             ELSE counts_at(lmin, text, Jump(i, run.j) + 1, <<>>,
                      IF Len(run.tokens_seq) >= lmin
                      THEN Incremented(m, run.tokens_seq) ELSE m)
    ELSE m

\* the serial loop over the texts (lines 212-214) with lmin for len_min
RECURSIVE counts_serial_at(_, _, _)
counts_serial_at(lmin, h, m) ==
    IF h < Len(texts)
    THEN counts_serial_at(lmin, h + 1,
             IF Len(At(texts, h)) = 0 THEN m
             ELSE counts_at(lmin, Padded(h), 0, <<>>, m))
    ELSE m

\* the keys of the table are a superset of the keys of a run with a larger
\* len_min
C11_KeysSuperset ==
    (Counted /\ 1 <= len_min /\ len_min <= len_max)
    => \A b \in len_min..len_max :
         DOMAIN counts_serial_at(b, 0, <<>>) \subseteq DOMAIN counts_seq

\* C11: for 1 <= a <= b <= len_max, the keys of the table built with
\* len_min = a are a superset of the keys of the table built with len_min = b,
\* and a key of both has the same count in both (a is the len_min of the run,
\* b ranges over the larger values).
C11_LenMinMonotone ==
    (Counted /\ 1 <= len_min /\ len_min <= len_max)
    => \A b \in len_min..len_max :
         LET other == counts_serial_at(b, 0, <<>>)
         IN  /\ DOMAIN other \subseteq DOMAIN counts_seq
             /\ \A g \in DOMAIN other : counts_seq[g] = other[g]

\* lines 138-139 with the threshold c for count_min
IgnoredAt(c, i) == Len(At(seqs, i)) = 1 \/ At(cs, i) < c

\* the candidates (1-based) whose sigma and lambda the run has written
Written == {i \in DOMAIN seqs : writes[i].ss >= 1 /\ writes[i].ls >= 1}

\* the candidates a run with threshold c writes
WrittenAt(c) == {i \in DOMAIN seqs : ~IgnoredAt(c, i - 1)}

\* C12: for a fixed candidate list and method, the candidates written with a
\* threshold b are among those written with a threshold a <= b: a finished
\* run with count_min has written every candidate that a larger threshold
\* writes and none that a smaller threshold does not write.
C12_CountMinMonotone ==
    pc = "done"
    => /\ \A b \in count_min..(MaxCountMin + 1) : WrittenAt(b) \subseteq Written
       /\ \A a \in 0..count_min : Written \subseteq WrittenAt(a)

\* a finished run that scored a candidate which the next threshold drops
C12_Witness ==
    /\ pc = "done"
    /\ \E i \in Written : i \notin WrittenAt(count_min + 1)
    /\ \E k \in DOMAIN seqs : k \notin Written /\ k \in WrittenAt(0)

\* the index j at which worker w's current outer iteration closes its run
ClosingIndex(w) ==
    LET c == count_mt[w]
    IN  IF c.pc = "store" THEN c.j
        ELSE inner_loop(Padded(c.h), c.i, c.i, c.tokens_seq).j

\* worker w completes an outer iteration of counts() (lines 83-106)
IterationEnds(w) ==
    /\ count_mt[w].pc \in {"scan", "store"}
    /\ count_mt'[w] # count_mt[w]
    /\ count_mt'[w].pc # "store"

\* C13: with nested = false, a run closed by the length cap (the token at the
\* closing index j is not a boundary) is followed by a run that begins with
\* the token at index j, so that no non-boundary token is left out of every
\* run.
C13_RestartAtClosingIndex ==
    [][\A w \in Workers :
         (/\ ~nested /\ 1 <= len_min /\ len_min <= len_max
          /\ IterationEnds(w)
          /\ At(Padded(count_mt[w].h), ClosingIndex(w)) # 0)
         => /\ count_mt'[w].pc = "scan"
            /\ count_mt'[w].h = count_mt[w].h
            /\ count_mt'[w].i = ClosingIndex(w)]_vars

\* the sum of the counts of the candidates (0-based) in S
RECURSIVE SumOfCounts(_)
SumOfCounts(S) ==
    IF S = {} THEN 0
    ELSE LET j == CHOOSE k \in S : TRUE
         IN  At(cs, j) + SumOfCounts(S \ {j})

\* the candidates other than i whose mask against candidate i is b
Bucket(i, b) ==
    {j \in 0..(Len(seqs) - 1) : j # i /\ match_bit2(At(seqs, i), At(seqs, j)) = b}

\* C14: when the estimator of a scored candidate i of length n is called,
\* bucket b of its contingency vector holds 0.5 plus the counts of every
\* other candidate whose mask equals b (single words and candidates below
\* count_min included) plus count[i] - 1 in the all-ones bucket; in half
\* units: 1 + 2 * sum + 2 * (count[i] - 1).
C14_ContingencyAccumulation ==
    \A w \in Workers :
      estimate_mt[w].pc = "lambda"
      => LET i == estimate_mt[w].i
             n == Len(At(seqs, i))
         IN  estimate_mt[w].counts_bit =
               [b \in 0..(Pow2(n) - 1) |->
                  1 + 2 * SumOfCounts(Bucket(i, b))
                    + (IF b = Pow2(n) - 1 THEN 2 * (At(cs, i) - 1) ELSE 0)]

\* an estimator is called for a candidate seen twice, beside a single word
\* and a candidate below count_min
C14_Witness ==
    \E w \in Workers :
      /\ estimate_mt[w].pc = "lambda"
      /\ At(cs, estimate_mt[w].i) >= 2
      /\ \E j \in 0..(Len(seqs) - 1) :
           /\ j # estimate_mt[w].i
           /\ Len(At(seqs, j)) = 1
           /\ At(cs, j) < count_min

\* lines 142-149 stopped before candidate k: a point of the accumulation
RECURSIVE counts_bit_prefix(_, _, _, _)
counts_bit_prefix(i, j, k, counts_bit) ==
    IF j < k
    THEN counts_bit_prefix(i, j + 1, k,
             IF i = j THEN counts_bit
             ELSE LET bit == match_bit2(At(seqs, i), At(seqs, j))
                  IN  [counts_bit EXCEPT ![bit] = @ + 2 * At(cs, j)])
    ELSE counts_bit

\* every entry of a contingency vector is at least 0.5 (1 in half units)
Smoothed(counts_bit) == \A b \in DOMAIN counts_bit : counts_bit[b] >= 1

\* the contingency vector of every scored candidate is smoothed at every
\* point of the accumulation, after the correction of line 150 and when the
\* estimator is called
ContingencySmoothed ==
    /\ Counted
       => \A i \in 0..(Len(seqs) - 1) :
            ~Ignored(i)
            => /\ \A k \in 0..Len(seqs) :
                    Smoothed(counts_bit_prefix(i, 0, k,
                        [b \in 0..(Pow2(Len(At(seqs, i))) - 1) |-> 1]))
               /\ Smoothed(CountsBit(i))
    /\ \A w \in Workers :
         estimate_mt[w].pc = "lambda" => Smoothed(estimate_mt[w].counts_bit)

C16_KeyLengthBounds ==
    \A g \in DOMAIN counts_seq : len_min <= Len(g) /\ Len(g) <= len_max

\* counting is over for a text of three tokens without a boundary, scanned
\* with 2 <= len_min <= len_max < 3: the length cap closed a run and a run
\* shorter than len_min was dropped or skipped
C16_Witness ==
    /\ Counted
    /\ len_min = 2 /\ len_max = 2
    /\ \E h \in DOMAIN texts : Len(texts[h]) = 3 /\ NoBoundary(texts[h])
    /\ DOMAIN counts_seq # {}

\* the sum of 2^p over the positions p in S
RECURSIVE SumOfPowers(_)
SumOfPowers(S) ==
    IF S = {} THEN 0
    ELSE LET p == CHOOSE k \in S : TRUE
         IN  Pow2(p) + SumOfPowers(S \ {p})

\* the positions (0-based) below the shorter length at which s and t agree
Agreeing(s, t) ==
    {p \in 0..(Len(s) - 1) : p < Len(t) /\ At(s, p) = At(t, p)}

\* the token sequences a key is compared with
Comparands == SeqsUpTo(1..MaxToken, MaxLen)

\* C17: for a key s of the table and any token sequence t, the mask of s
\* against t is the sum of 2^p over the positions p below the shorter length
\* at which they agree, and the mask of t against s is the same number.
C17_MaskIsSumOfAgreeingPositions ==
    Counted
    => \A s \in DOMAIN counts_seq : \A t \in Comparands :
         /\ match_bit2(s, t) = SumOfPowers(Agreeing(s, t))
         /\ match_bit2(t, s) = match_bit2(s, t)

\* an estimator was called for a candidate that agrees with another
\* candidate at position 1 and not at position 0: the mask is 2
C17_Witness ==
    \E w \in Workers :
      /\ estimate_mt[w].pc = "lambda"
      /\ \E j \in 0..(Len(seqs) - 1) :
           /\ match_bit2(At(seqs, estimate_mt[w].i), At(seqs, j)) = 2
           /\ estimate_mt[w].counts_bit[2] > 1

\* s is a proper prefix of t
ProperPrefix(s, t) == Len(s) < Len(t) /\ SubSeq(t, 1, Len(s)) = s

\* C19: for a scored candidate i of n tokens and any token sequence, shorter,
\* equal or longer, the mask is in 0..2^n - 1, the index range of the
\* contingency vector; a longer sequence that has candidate i as prefix has
\* the all-ones mask 2^n - 1; the vector handed to the estimator has exactly
\* the indices 0..2^n - 1.
C19_MaskIndexInBounds ==
    /\ Counted
       => \A i \in 0..(Len(seqs) - 1) :
            ~Ignored(i)
            => LET n == Len(At(seqs, i))
               IN  \A t \in Comparands \cup {At(seqs, j) : j \in 0..(Len(seqs) - 1)} :
                     /\ match_bit2(At(seqs, i), t) \in 0..(Pow2(n) - 1)
                     /\ ProperPrefix(At(seqs, i), t)
                        => match_bit2(At(seqs, i), t) = Pow2(n) - 1
    /\ \A w \in Workers :
         estimate_mt[w].pc = "lambda"
         => DOMAIN estimate_mt[w].counts_bit =
              0..(Pow2(Len(At(seqs, estimate_mt[w].i))) - 1)

\* an estimator was called for a candidate that is a proper prefix of a
\* longer candidate, whose count is in the all-ones bucket
C19_Witness ==
    \E w \in Workers :
      /\ estimate_mt[w].pc = "lambda"
      /\ \E j \in 0..(Len(seqs) - 1) :
           /\ ProperPrefix(At(seqs, estimate_mt[w].i), At(seqs, j))
           /\ estimate_mt[w].counts_bit[Pow2(Len(At(seqs, estimate_mt[w].i))) - 1]
                = 1 + 2 * At(cs, j) + 2 * (At(cs, estimate_mt[w].i) - 1)

\* C18: the counter terminates on every text: at the start of every outer
\* iteration the buffer is empty and the start index i is inside the padded
\* text, the inner scan from i reaches a closing step at an index j >= i
\* inside the padded text, and an outer iteration ends either with a larger
\* start index in the same text or with the text left.
C18_CounterTerminates ==
    /\ [](\A w \in Workers :
            count_mt[w].pc = "scan"
            => LET text == Padded(count_mt[w].h)
                   run == inner_loop(text, count_mt[w].i, count_mt[w].i, <<>>)
               IN  /\ count_mt[w].tokens_seq = <<>>
                   /\ count_mt[w].i < Len(text)
                   /\ run.closed
                   /\ count_mt[w].i <= run.j /\ run.j < Len(text))
    /\ [][\A w \in Workers :
            IterationEnds(w)
            => \/ /\ count_mt'[w].pc = "scan"
                  /\ count_mt'[w].h = count_mt[w].h
                  /\ count_mt'[w].i > count_mt[w].i
               \/ /\ count_mt'[w].pc \in {"text", "finished"}
                  /\ count_mt'[w].h = count_mt[w].h + 1]_vars

\* the workers of parallelFor are threads that keep running
SpecFair == Spec /\ WF_vars(Next)

\* under SpecFair every worker leaves counts() for the last time
CounterEventuallyReturns == <>(\A w \in Workers : count_mt[w].pc = "finished")

\* an outer iteration starts behind a run that was closed and counted
C18_Witness ==
    \E w \in Workers :
      /\ count_mt[w].pc = "scan"
      /\ count_mt[w].i >= 2
      /\ \E g \in DOMAIN counts_seq : Len(g) >= 1 /\ counts_seq[g] >= 1

\* the increments the keys in S have received, each weighted by the length
\* of its key (weighted) or by 1
RECURSIVE Increments(_, _)
Increments(S, weighted) ==
    IF S = {} THEN 0
    ELSE LET g == CHOOSE k \in S : TRUE
         IN  counts_seq[g] * (IF weighted THEN Len(g) ELSE 1)
               + Increments(S \ {g}, weighted)

\* the number of non-boundary tokens of texts h, h + 1, ...
RECURSIVE NonBoundaryTokens(_)
NonBoundaryTokens(h) ==
    IF h < Len(texts)
    THEN Cardinality({p \in DOMAIN At(texts, h) : At(texts, h)[p] # 0})
           + NonBoundaryTokens(h + 1)
    ELSE 0

\* the number of start positions of the outer loop in texts h, h + 1, ...
RECURSIVE StartPositions(_)
StartPositions(h) ==
    IF h < Len(texts)
    THEN (IF Len(At(texts, h)) = 0 THEN 0 ELSE Len(Padded(h)))
           + StartPositions(h + 1)
    ELSE 0

\* C20: with nested = false the windows counted from one text are pairwise
\* disjoint: a window to be counted is the slice from the start index to the
\* closing index, the next start index of the text lies behind the closing
\* index, and the increments weighted by window length never exceed the number
\* of non-boundary tokens; with nested = true at most one window is counted
\* per start position.
C20_WindowsDisjoint ==
    /\ [](\A w \in Workers :
            count_mt[w].pc = "store"
            => count_mt[w].tokens_seq =
                 SubSeq(Padded(count_mt[w].h), count_mt[w].i + 1, count_mt[w].j))
    /\ [][\A w \in Workers :
            (~nested /\ IterationEnds(w) /\ count_mt'[w].h = count_mt[w].h)
            => count_mt'[w].i >= ClosingIndex(w)]_vars
    /\ [](~nested => Increments(DOMAIN counts_seq, TRUE) <= NonBoundaryTokens(0))
    /\ [](nested => Increments(DOMAIN counts_seq, FALSE) <= StartPositions(0))

\* with nested = false two windows of one text have been counted
C20_Witness ==
    /\ Counted
    /\ ~nested
    /\ Len(texts) = 1
    /\ Increments(DOMAIN counts_seq, FALSE) >= 2
    /\ Increments(DOMAIN counts_seq, TRUE) >= 2

====
